---------------------------- MODULE Spec2Model ----------------------------
(***************************************************************************)
(* Client intake application: the public ClientForm component (two         *)
(* variants: with e-mail field and timed "sending" animation, and the      *)
(* plain one) and the AdminDashboard component (two variants: with the     *)
(* session-storage flag, and without).                                     *)
(*                                                                         *)
(* Text values are sequences of one-character strings, so that trim() and  *)
(* the two regular expressions are computed, not assumed.                  *)
(***************************************************************************)
EXTENDS Integers, Sequences, FiniteSets, TLC

VARIABLES
    \* ---- ClientForm (route "/") ----
    variant,         \* which ClientForm is mounted: "animated" | "plain" | "none"
    formData,        \* useState: the field values
    errors,          \* useState: field -> message | Null (a JS object)
    isSubmitting,    \* useState
    showSendingGif,  \* useState (animated variant only; FALSE otherwise)
    isSubmitted,     \* useState
    posts,           \* POST /api/submissions promises awaited by handleSubmit
    timers,          \* pending setTimeout callbacks of the sending animation
    \* ---- AdminDashboard (route "/admin") ----
    adminVariant,    \* which AdminDashboard is mounted: "session" | "memory" | "none"
    sessionFlag,     \* sessionStorage.getItem("adminAuthenticated"): "true" | Null
    isAuthenticated, \* useState
    password,        \* useState
    submissions,     \* useState: the rows on screen, in order
    isLoading,       \* useState
    loginError,      \* useState
    verifies,        \* POST /api/admin/verify promises awaited by handleLogin
    fetches,         \* GET /api/submissions promises awaited by fetchSubmissions
    deletes,         \* DELETE /api/submissions/{id} promises awaited by handleDelete
    stored,          \* the backend's rows, in the order GET returns them
    \* ---- shared ----
    toast            \* the last notification handed to the toaster

formVars == <<variant, formData, errors, isSubmitting, showSendingGif,
              isSubmitted, posts, timers>>

adminVars == <<adminVariant, sessionFlag, isAuthenticated, password, submissions,
               isLoading, loginError, verifies, fetches, deletes, stored>>

vars == <<formVars, adminVars, toast>>

----------------------------------------------------------------------------
(* Bounds of the model *)

\* POST promises the model lets be pending at once (the code keeps it at 1)
MaxInFlight == 2
\* pending animation timers the model lets exist at once
MaxTimers == 2
\* dashboard promises (verify, list, delete) the model lets be pending at once
MaxPending == 2

----------------------------------------------------------------------------
(* JavaScript values *)

Null == "null"
Undefined == "undefined"
EmptyObject == <<>>

\* obj[key] of a JS object
Get(obj, key) == IF key \in DOMAIN obj THEN obj[key] ELSE Undefined

\* { ...obj, [key]: value }
Put(obj, key, value) ==
    [k \in (DOMAIN obj) \cup {key} |-> IF k = key THEN value ELSE obj[k]]

\* JS truthiness of an entry of errors (a message, null or undefined)
Truthy(v) == v # Null /\ v # Undefined /\ v # ""

\* Object.keys(obj).length
KeyCount(obj) == Cardinality(DOMAIN obj)

----------------------------------------------------------------------------
(* Text: String.prototype.trim and the two patterns of validate *)

WhiteSpace == {" ", "\t", "\n"}
Digit == {"0", "1", "2", "3", "4", "5", "6", "7", "8", "9"}

RECURSIVE trimStart(_)
trimStart(s) ==
    IF s = <<>> THEN s
    ELSE IF Head(s) \in WhiteSpace THEN trimStart(Tail(s)) ELSE s

RECURSIVE trimEnd(_)
trimEnd(s) ==
    IF s = <<>> THEN s
    ELSE IF s[Len(s)] \in WhiteSpace THEN trimEnd(SubSeq(s, 1, Len(s) - 1)) ELSE s

\* trim left out
trimOmitted(s) == s

trim(s) == trimEnd(trimStart(s))

MobileMinLen == 7
MobileMaxLen == 20

\* the character class [\d\s\-\+\(\)]
MobileChar == Digit \cup WhiteSpace \cup {"-", "+", "(", ")"}

\* /^[\d\s\-\+\(\)]{7,20}$/.test(s)
MobileRegexTest(s) ==
    /\ Len(s) >= MobileMinLen
    /\ Len(s) <= MobileMaxLen
    /\ \A i \in 1..Len(s) : s[i] \in MobileChar

\* the character class [^\s@]
EmailChar(c) == c \notin WhiteSpace /\ c # "@"

\* s[from..to] is a non-empty run of [^\s@]
EmailRun(s, from, to) ==
    /\ from <= to
    /\ \A i \in from..to : EmailChar(s[i])

\* /^[^\s@]+@[^\s@]+\.[^\s@]+$/.test(s): some "@" at a and some "." at d split
\* s into three non-empty runs of [^\s@]
EmailRegexTest(s) ==
    \E a \in 1..Len(s) : \E d \in 1..Len(s) :
        /\ a < d
        /\ s[a] = "@"
        /\ s[d] = "."
        /\ EmailRun(s, 1, a - 1)
        /\ EmailRun(s, a + 1, d - 1)
        /\ EmailRun(s, d + 1, Len(s))

----------------------------------------------------------------------------
(* Field values the user types.  Each set is labelled with what the rule of *)
(* its field is meant to say about it.                                      *)

\* empty or whitespace-only text
BlankText ==
    {<<>>,
     <<" ">>,
     <<"\t", " ">>}

NameGood ==
    {<<"A", "l">>,
     <<" ", "B", "o", " ">>}

BusinessGood ==
    {<<"C", "o">>}

\* whitespace-only text long enough for the mobile pattern's length window
MobileBlank ==
    BlankText \cup
    {<<" ", " ", " ", " ", " ", " ", " ">>}

MobileBad ==
    {<<"1", "2", "3", "4", "5", "6">>,
     <<"1", "1", "1", "1", "1", "1", "1", "1", "1", "1", "1", "1", "1", "1", "1", "1", "1", "1", "1", "1", "1">>,
     <<"1", "2", "3", "4", "5", "a", "7">>,
     <<"1", "2", "3", "4", "5", "6", ".">>}

MobileGood ==
    {<<"1", "2", "3", "4", "5", "6", "7">>,
     <<"1", "2", "3", "4", "5", "6", "7", "8", "9", "0", "1", "2", "3", "4", "5", "6", "7", "8", "9", "0">>,
     <<"+", "1", " ", "(", "5", "5", "5", ")", " ", "1", "2", "3", "-", "4", "5", "6", "7">>}

EmailBad ==
    {<<"a", "@", "b">>,
     <<"a", "b", ".", "c">>,
     <<"a", "@", "@", "b", ".", "c">>,
     <<"a", " ", "b", "@", "c", ".", "d">>,
     <<"@", "b", ".", "c">>,
     <<"a", "@", ".", "c">>,
     <<"a", "@", "b", ".">>,
     <<" ", "a", "@", "b", ".", "c">>}

EmailGood ==
    {<<"a", "@", "b", ".", "c">>,
     <<"a", ".", "b", "@", "c", ".", "d", ".", "e">>}

TextFields == {"name", "business_name", "mobile_number", "email"}

\* the inputs the form of a variant renders
Fields(v) ==
    IF v = "animated"
    THEN {"name", "business_name", "mobile_number", "email", "agreed_to_terms"}
    ELSE {"name", "business_name", "mobile_number", "agreed_to_terms"}

\* every value validate is applied to
Samples(field) ==
    CASE field = "name" -> BlankText \cup NameGood
      [] field = "business_name" -> BlankText \cup BusinessGood
      [] field = "mobile_number" -> MobileBlank \cup MobileBad \cup MobileGood
      [] field = "email" -> BlankText \cup EmailBad \cup EmailGood
      [] field = "agreed_to_terms" -> BOOLEAN

\* the values typed while the whole form is exercised
Typed(field) ==
    CASE field = "name" -> {<<>>, <<"A", "l">>, <<"B", "o">>}
      [] field = "business_name" -> {<<>>, <<"C", "o">>}
      [] field = "mobile_number" -> {<<>>, <<"1", "2", "3", "4", "5", "6">>, <<"1", "2", "3", "4", "5", "6", "7">>}
      [] field = "email" -> {<<>>, <<"a", "@", "b">>, <<"a", "@", "b", ".", "c">>}
      [] field = "agreed_to_terms" -> BOOLEAN

----------------------------------------------------------------------------
(* ClientForm: validate *)

\* validate of the animated variant (name, business, mobile, e-mail, terms)
validate(fd) ==
    LET e0 == EmptyObject
        e1 == IF trim(fd.name) = <<>>
              THEN Put(e0, "name", "Name is required") ELSE e0
        e2 == IF trim(fd.business_name) = <<>>
              THEN Put(e1, "business_name", "Business name is required") ELSE e1
        e3 == IF trim(fd.mobile_number) = <<>>
              THEN Put(e2, "mobile_number", "Mobile number is required")
              ELSE IF ~MobileRegexTest(fd.mobile_number)
                   THEN Put(e2, "mobile_number", "Please enter a valid mobile number")
                   ELSE e2
        e4 == IF trim(fd.email) = <<>>
              THEN Put(e3, "email", "Email is required")
              ELSE IF ~EmailRegexTest(fd.email)
                   THEN Put(e3, "email", "Please enter a valid email address")
                   ELSE e3
        e5 == IF ~fd.agreed_to_terms
              THEN Put(e4, "agreed_to_terms", "You must agree to the terms") ELSE e4
    IN  e5

\* validate of the plain variant (no e-mail field)
validatePlain(fd) ==
    LET e0 == EmptyObject
        e1 == IF trim(fd.name) = <<>>
              THEN Put(e0, "name", "Name is required") ELSE e0
        e2 == IF trim(fd.business_name) = <<>>
              THEN Put(e1, "business_name", "Business name is required") ELSE e1
        e3 == IF trim(fd.mobile_number) = <<>>
              THEN Put(e2, "mobile_number", "Mobile number is required")
              ELSE IF ~MobileRegexTest(fd.mobile_number)
                   THEN Put(e2, "mobile_number", "Please enter a valid mobile number")
                   ELSE e2
        e4 == IF ~fd.agreed_to_terms
              THEN Put(e3, "agreed_to_terms", "You must agree to the terms") ELSE e3
    IN  e4

----------------------------------------------------------------------------
(* ClientForm: state after construction *)

InitialFormData ==
    [name |-> <<>>, business_name |-> <<>>, mobile_number |-> <<>>,
     email |-> <<>>, agreed_to_terms |-> FALSE]

InitialFormDataPlain ==
    [name |-> <<>>, business_name |-> <<>>, mobile_number |-> <<>>,
     agreed_to_terms |-> FALSE]

InitForm ==
    /\ variant \in {"animated", "plain"}
    /\ formData = IF variant = "animated" THEN InitialFormData
                  ELSE InitialFormDataPlain
    /\ errors = EmptyObject
    /\ isSubmitting = FALSE
    /\ showSendingGif = FALSE
    /\ isSubmitted = FALSE
    /\ posts = <<>>
    /\ timers = 0

----------------------------------------------------------------------------
(* ClientForm: what is on screen *)

\* the early returns of render: the sending view, then the success view
FormRendered == variant # "none" /\ ~showSendingGif /\ ~isSubmitted

SuccessRendered == ~showSendingGif /\ isSubmitted

\* the submit control never disabled
SubmitAlwaysEnabled == TRUE

\* <button type="submit" disabled={isSubmitting}>
SubmitEnabled == ~isSubmitting

\* s without its i-th element
RemoveAt(s, i) == SubSeq(s, 1, i - 1) \o SubSeq(s, i + 1, Len(s))

\* the POST sent without the terms flag the user ticked
NewPostTermsDropped(fd) ==
    [payload |-> [fd EXCEPT !.agreed_to_terms = FALSE], status |-> "pending",
     detail |-> Undefined]

NewPost(fd) == [payload |-> fd, status |-> "pending", detail |-> Undefined]

----------------------------------------------------------------------------
(* ClientForm: handlers *)

\* handleSubmit without the return after setErrors: the POST goes out anyway
handleSubmitNoReturn ==
    /\ variant = "animated"
    /\ FormRendered
    /\ SubmitEnabled
    /\ Len(posts) < MaxInFlight
    /\ LET validationErrors == validate(formData)
       IN  /\ isSubmitting' = TRUE
           /\ errors' = EmptyObject
           /\ posts' = Append(posts, [payload |-> formData, status |-> "pending",
                                      detail |-> Undefined])
    /\ UNCHANGED <<adminVars, variant, formData, showSendingGif, isSubmitted, timers, toast>>

\* handleSubmit of the animated variant, up to its await
handleSubmit ==
    /\ variant = "animated"
    /\ FormRendered
    /\ SubmitEnabled
    /\ LET validationErrors == validate(formData)
       IN  IF KeyCount(validationErrors) > 0
           THEN /\ errors' = validationErrors
                /\ UNCHANGED <<isSubmitting, posts>>
           ELSE /\ Len(posts) < MaxInFlight
                /\ isSubmitting' = TRUE
                /\ errors' = EmptyObject
                /\ posts' = Append(posts, NewPost(formData))
    /\ UNCHANGED <<adminVars, variant, formData, showSendingGif, isSubmitted, timers, toast>>

\* the try block without setIsSubmitting(false)
handleSubmitResolvedStaysBusy(i) ==
    /\ variant = "animated"
    /\ i \in 1..Len(posts)
    /\ posts[i].status = "resolved"
    /\ timers < MaxTimers
    /\ posts' = RemoveAt(posts, i)
    /\ showSendingGif' = TRUE
    /\ timers' = timers + 1
    /\ UNCHANGED <<adminVars, variant, formData, errors, isSubmitting, isSubmitted,
                   toast>>

\* handleSubmit after its await resolved: the sending view and its timer
handleSubmitResolved(i) ==
    /\ variant = "animated"
    /\ i \in 1..Len(posts)
    /\ posts[i].status = "resolved"
    /\ timers < MaxTimers
    /\ posts' = RemoveAt(posts, i)
    /\ isSubmitting' = FALSE
    /\ showSendingGif' = TRUE
    /\ timers' = timers + 1
    /\ UNCHANGED <<adminVars, variant, formData, errors, isSubmitted, toast>>

\* error.response?.data?.detail || "Failed to submit form. Please try again."
SubmitErrorText(detail) ==
    IF Truthy(detail) THEN detail ELSE "Failed to submit form. Please try again."

\* the catch block without setIsSubmitting(false)
handleSubmitRejectedStaysBusy(i) ==
    /\ variant = "animated"
    /\ i \in 1..Len(posts)
    /\ posts[i].status = "rejected"
    /\ posts' = RemoveAt(posts, i)
    /\ toast' = IF Truthy(posts[i].detail) THEN posts[i].detail
                ELSE "Failed to submit form. Please try again."
    /\ UNCHANGED <<adminVars, variant, formData, errors, isSubmitting, showSendingGif,
                   isSubmitted, timers>>

\* handleSubmit after its await rejected: the catch block
handleSubmitRejected(i) ==
    /\ variant = "animated"
    /\ i \in 1..Len(posts)
    /\ posts[i].status = "rejected"
    /\ posts' = RemoveAt(posts, i)
    /\ toast' = SubmitErrorText(posts[i].detail)
    /\ isSubmitting' = FALSE
    /\ UNCHANGED <<adminVars, variant, formData, errors, showSendingGif, isSubmitted, timers>>

\* the timer callback without setIsSubmitted(true)
sendingTimeoutNoSuccess ==
    /\ timers > 0
    /\ timers' = timers - 1
    /\ showSendingGif' = FALSE
    /\ UNCHANGED <<adminVars, variant, formData, errors, isSubmitting, isSubmitted,
                   posts, toast>>

\* the setTimeout callback, 3000 ms after the POST resolved
sendingTimeout ==
    /\ timers > 0
    /\ timers' = timers - 1
    /\ showSendingGif' = FALSE
    /\ isSubmitted' = TRUE
    /\ UNCHANGED <<adminVars, variant, formData, errors, isSubmitting, posts, toast>>

\* handleSubmit of the plain variant, up to its await
handleSubmitPlain ==
    /\ variant = "plain"
    /\ FormRendered
    /\ SubmitEnabled
    /\ LET validationErrors == validatePlain(formData)
       IN  IF KeyCount(validationErrors) > 0
           THEN /\ errors' = validationErrors
                /\ UNCHANGED <<isSubmitting, posts>>
           ELSE /\ Len(posts) < MaxInFlight
                /\ isSubmitting' = TRUE
                /\ errors' = EmptyObject
                /\ posts' = Append(posts, NewPost(formData))
    /\ UNCHANGED <<adminVars, variant, formData, showSendingGif, isSubmitted, timers, toast>>

\* plain handleSubmit after its await resolved, with the finally block
handleSubmitPlainResolved(i) ==
    /\ variant = "plain"
    /\ i \in 1..Len(posts)
    /\ posts[i].status = "resolved"
    /\ posts' = RemoveAt(posts, i)
    /\ isSubmitted' = TRUE
    /\ toast' = "Form submitted successfully!"
    /\ isSubmitting' = FALSE
    /\ UNCHANGED <<adminVars, variant, formData, errors, showSendingGif, timers>>

\* plain handleSubmit after its await rejected: catch, then finally
handleSubmitPlainRejected(i) ==
    /\ variant = "plain"
    /\ i \in 1..Len(posts)
    /\ posts[i].status = "rejected"
    /\ posts' = RemoveAt(posts, i)
    /\ toast' = SubmitErrorText(posts[i].detail)
    /\ isSubmitting' = FALSE
    /\ UNCHANGED <<adminVars, variant, formData, errors, showSendingGif, isSubmitted, timers>>

\* handleChange clearing the whole errors object
handleChangeClearsAll(field, value) ==
    /\ FormRendered
    /\ field \in Fields(variant)
    /\ formData' = [formData EXCEPT ![field] = value]
    /\ errors' = IF Truthy(Get(errors, field)) THEN EmptyObject ELSE errors
    /\ UNCHANGED <<adminVars, variant, isSubmitting, showSendingGif, isSubmitted, posts,
                   timers, toast>>

\* handleChange(field, value), the same code in both variants
handleChange(field, value) ==
    /\ FormRendered
    /\ field \in Fields(variant)
    /\ formData' = [formData EXCEPT ![field] = value]
    /\ errors' = IF Truthy(Get(errors, field))
                 THEN Put(errors, field, Null)
                 ELSE errors
    /\ UNCHANGED <<adminVars, variant, isSubmitting, showSendingGif, isSubmitted, posts,
                   timers, toast>>

\* "submit another" without setFormData
submitAnotherKeepsFields ==
    /\ variant = "animated"
    /\ SuccessRendered
    /\ isSubmitted' = FALSE
    /\ UNCHANGED <<adminVars, variant, formData, errors, isSubmitting, showSendingGif,
                   posts, timers, toast>>

\* onClick of "Submit Another Response", animated variant
submitAnother ==
    /\ variant = "animated"
    /\ SuccessRendered
    /\ isSubmitted' = FALSE
    /\ formData' = InitialFormData
    /\ UNCHANGED <<adminVars, variant, errors, isSubmitting, showSendingGif, posts, timers,
                   toast>>

\* onClick of "Submit Another Response", plain variant
submitAnotherPlain ==
    /\ variant = "plain"
    /\ SuccessRendered
    /\ isSubmitted' = FALSE
    /\ formData' = InitialFormDataPlain
    /\ UNCHANGED <<adminVars, variant, errors, isSubmitting, showSendingGif, posts, timers,
                   toast>>

----------------------------------------------------------------------------
(* The backend answering POST /api/submissions *)

PostDetails == {Undefined, "Database unavailable"}

\* the awaited axios.post settles: 2xx, or an error with or without a detail
postSettles(i, status, detail) ==
    /\ i \in 1..Len(posts)
    /\ posts[i].status = "pending"
    /\ posts' = [posts EXCEPT ![i] = [@ EXCEPT !.status = status, !.detail = detail]]
    /\ UNCHANGED <<adminVars, variant, formData, errors, isSubmitting, showSendingGif,
                   isSubmitted, timers, toast>>

----------------------------------------------------------------------------
(* AdminDashboard: state after construction *)

\* the rows the backend holds when the dashboard is first opened
Row(n) == [id |-> n]
InitialRows == <<Row(1)>>

\* the row a visitor of the public form adds while the dashboard is open
NewRow == Row(2)

\* the passwords typed into the login form: the right one, and the emptied
\* field as the wrong one (the input carries no required attribute)
Passwords == {"letmein", ""}

FormUnmounted ==
    /\ variant = "none"
    /\ formData = InitialFormData
    /\ errors = EmptyObject
    /\ isSubmitting = FALSE
    /\ showSendingGif = FALSE
    /\ isSubmitted = FALSE
    /\ posts = <<>>
    /\ timers = 0

AdminUnmounted ==
    /\ adminVariant = "none"
    /\ sessionFlag = Null
    /\ isAuthenticated = FALSE
    /\ password = ""
    /\ submissions = <<>>
    /\ isLoading = FALSE
    /\ loginError = ""
    /\ verifies = <<>>
    /\ fetches = <<>>
    /\ deletes = <<>>
    /\ stored = InitialRows

\* a fresh browser session opens /admin: no flag in sessionStorage yet
InitAdmin ==
    /\ adminVariant \in {"session", "memory"}
    /\ sessionFlag = Null
    /\ isAuthenticated = FALSE
    /\ password = ""
    /\ submissions = <<>>
    /\ isLoading = FALSE
    /\ loginError = ""
    /\ verifies = <<>>
    /\ fetches = <<>>
    /\ deletes = <<>>
    /\ stored = InitialRows

----------------------------------------------------------------------------
(* AdminDashboard: handlers (where the two variants have the same code, the *)
(* definition is written once)                                              *)

\* the password the backend accepts
AdminPassword == "letmein"

LoginRendered == adminVariant # "none" /\ ~isAuthenticated

DashboardRendered == adminVariant # "none" /\ isAuthenticated

\* the table with its delete buttons is shown
TableRendered == DashboardRendered /\ ~isLoading /\ Len(submissions) > 0

\* latest and beforeLogout are history kept with a pending call, read by no
\* handler: latest is <<r>> when r is the response of the most recently issued
\* GET whose response was applied while this GET was in flight (<<>> when
\* there is none), beforeLogout tells whether the logout button was clicked
\* since the verify call was issued
NewFetch == [status |-> "pending", data |-> <<>>, latest |-> <<>>]

\* the answer to a verify call depends on nothing but the password sent (2xx
\* with success true for the right one, 2xx without success for a wrong one)
\* or is a transport error, so it is drawn when the continuation runs
NewVerify(p) == [password |-> p, beforeLogout |-> FALSE]

\* the response r of a GET is applied: the first n calls of fs were issued
\* before it and are still in flight
MarkOvertaken(fs, n, r) ==
    [k \in 1..Len(fs) |-> IF k <= n THEN [fs[k] EXCEPT !.latest = <<r>>] ELSE fs[k]]

\* every pending verify call was issued before this logout
MarkBeforeLogout(vs) ==
    [k \in 1..Len(vs) |-> [vs[k] EXCEPT !.beforeLogout = TRUE]]

\* the promises the dashboard is awaiting
Pending == Len(verifies) + Len(fetches) + Len(deletes)

\* fetchSubmissions up to its await
fetchSubmissions ==
    /\ isLoading' = TRUE
    /\ fetches' = Append(fetches, NewFetch)

\* onChange of the password input
setPassword(p) ==
    /\ LoginRendered
    /\ password' = p
    /\ UNCHANGED <<formVars, adminVariant, sessionFlag, isAuthenticated,
                   submissions, isLoading, loginError, verifies, fetches,
                   deletes, stored, toast>>

\* handleLogin up to its await
handleLogin ==
    /\ LoginRendered
    /\ Pending < MaxPending
    /\ loginError' = ""
    /\ verifies' = Append(verifies, NewVerify(password))
    /\ UNCHANGED <<formVars, adminVariant, sessionFlag, isAuthenticated, password,
                   submissions, isLoading, fetches, deletes, stored, toast>>

\* the if block without sessionStorage.setItem
handleLoginGrantedNoFlag(i) ==
    /\ adminVariant = "session"
    /\ i \in 1..Len(verifies)
    /\ verifies[i].password = AdminPassword
    /\ verifies' = RemoveAt(verifies, i)
    /\ isAuthenticated' = TRUE
    /\ fetchSubmissions
    /\ UNCHANGED <<formVars, adminVariant, sessionFlag, password, submissions,
                   loginError, deletes, stored, toast>>

\* handleLogin after its await resolved with response.data.success truthy
\* (session variant)
handleLoginGranted(i) ==
    /\ adminVariant = "session"
    /\ i \in 1..Len(verifies)
    /\ verifies[i].password = AdminPassword
    /\ verifies' = RemoveAt(verifies, i)
    /\ isAuthenticated' = TRUE
    /\ sessionFlag' = "true"
    /\ fetchSubmissions
    /\ UNCHANGED <<formVars, adminVariant, password, submissions, loginError,
                   deletes, stored, toast>>

\* the same, memory variant: no sessionStorage, a toast instead
handleLoginGrantedMemory(i) ==
    /\ adminVariant = "memory"
    /\ i \in 1..Len(verifies)
    /\ verifies[i].password = AdminPassword
    /\ verifies' = RemoveAt(verifies, i)
    /\ isAuthenticated' = TRUE
    /\ toast' = "Access granted"
    /\ fetchSubmissions
    /\ UNCHANGED <<formVars, adminVariant, sessionFlag, password, submissions,
                   loginError, deletes, stored>>

\* fetchSubmissions() called outside the if
handleLoginDeniedFetches(i) ==
    /\ i \in 1..Len(verifies)
    /\ verifies[i].password # AdminPassword
    /\ verifies' = RemoveAt(verifies, i)
    /\ isLoading' = TRUE
    /\ fetches' = Append(fetches, NewFetch)
    /\ UNCHANGED <<formVars, adminVariant, sessionFlag, isAuthenticated, password,
                   submissions, loginError, deletes, stored, toast>>

\* handleLogin after its await resolved with response.data.success falsy:
\* the if has no else
handleLoginDenied(i) ==
    /\ i \in 1..Len(verifies)
    /\ verifies[i].password # AdminPassword
    /\ verifies' = RemoveAt(verifies, i)
    /\ UNCHANGED <<formVars, adminVariant, sessionFlag, isAuthenticated, password,
                   submissions, isLoading, loginError, fetches, deletes, stored,
                   toast>>

\* handleLogin after its await rejected: the catch block
handleLoginRejected(i) ==
    /\ i \in 1..Len(verifies)
    /\ verifies' = RemoveAt(verifies, i)
    /\ loginError' = "Invalid password. Please try again."
    /\ UNCHANGED <<formVars, adminVariant, sessionFlag, isAuthenticated, password,
                   submissions, isLoading, fetches, deletes, stored, toast>>

\* the response appended to the rows already in memory
fetchSubmissionsResolvedMerges(i) ==
    /\ i \in 1..Len(fetches)
    /\ fetches[i].status = "resolved"
    /\ fetches' = IF fetches[i].latest = <<>>
                  THEN MarkOvertaken(RemoveAt(fetches, i), i - 1, fetches[i].data)
                  ELSE RemoveAt(fetches, i)
    /\ submissions' = submissions \o fetches[i].data
    /\ isLoading' = FALSE
    /\ UNCHANGED <<formVars, adminVariant, sessionFlag, isAuthenticated, password,
                   loginError, verifies, deletes, stored, toast>>

\* fetchSubmissions after its await resolved, with the finally block
fetchSubmissionsResolved(i) ==
    /\ i \in 1..Len(fetches)
    /\ fetches[i].status = "resolved"
    /\ fetches' = IF fetches[i].latest = <<>>
                  THEN MarkOvertaken(RemoveAt(fetches, i), i - 1, fetches[i].data)
                  ELSE RemoveAt(fetches, i)
    /\ submissions' = fetches[i].data
    /\ isLoading' = FALSE
    /\ UNCHANGED <<formVars, adminVariant, sessionFlag, isAuthenticated, password,
                   loginError, verifies, deletes, stored, toast>>

\* the catch block treating every error as a lost session
fetchSubmissionsRejectedLogsOut(i) ==
    /\ i \in 1..Len(fetches)
    /\ fetches[i].status = "rejected"
    /\ fetches' = RemoveAt(fetches, i)
    /\ isAuthenticated' = FALSE
    /\ toast' = "Failed to load submissions"
    /\ isLoading' = FALSE
    /\ UNCHANGED <<formVars, adminVariant, sessionFlag, password, submissions,
                   loginError, verifies, deletes, stored>>

\* the catch block emptying the list
fetchSubmissionsRejectedClears(i) ==
    /\ i \in 1..Len(fetches)
    /\ fetches[i].status = "rejected"
    /\ fetches' = RemoveAt(fetches, i)
    /\ submissions' = <<>>
    /\ toast' = "Failed to load submissions"
    /\ isLoading' = FALSE
    /\ UNCHANGED <<formVars, adminVariant, sessionFlag, isAuthenticated, password,
                   loginError, verifies, deletes, stored>>

\* fetchSubmissions after its await rejected: catch, then finally
fetchSubmissionsRejected(i) ==
    /\ i \in 1..Len(fetches)
    /\ fetches[i].status = "rejected"
    /\ fetches' = RemoveAt(fetches, i)
    /\ toast' = "Failed to load submissions"
    /\ isLoading' = FALSE
    /\ UNCHANGED <<formVars, adminVariant, sessionFlag, isAuthenticated, password,
                   submissions, loginError, verifies, deletes, stored>>

\* prev.filter((s) => s.id !== id)
FilterOut(rows, id) == SelectSeq(rows, LAMBDA s : s.id # id)

RowIds(rows) == {rows[k].id : k \in 1..Len(rows)}

\* handleDelete without the window.confirm early return
handleDeleteNoConfirm(id, confirmed) ==
    /\ TableRendered
    /\ id \in RowIds(submissions)
    /\ Pending < MaxPending
    /\ deletes' = Append(deletes, [id |-> id, status |-> "pending"])
    /\ UNCHANGED <<formVars, adminVariant, sessionFlag, isAuthenticated, password,
                   submissions, isLoading, loginError, verifies, fetches, stored,
                   toast>>

\* handleDelete(id) up to its await; confirmed is the answer to window.confirm
handleDelete(id, confirmed) ==
    /\ TableRendered
    /\ id \in RowIds(submissions)
    /\ IF ~confirmed
       THEN UNCHANGED deletes
       ELSE /\ Pending < MaxPending
            /\ deletes' = Append(deletes, [id |-> id, status |-> "pending"])
    /\ UNCHANGED <<formVars, adminVariant, sessionFlag, isAuthenticated, password,
                   submissions, isLoading, loginError, verifies, fetches, stored,
                   toast>>

\* the filter keeping s.id === id
handleDeleteResolvedKeepsTarget(i) ==
    /\ i \in 1..Len(deletes)
    /\ deletes[i].status = "resolved"
    /\ deletes' = RemoveAt(deletes, i)
    /\ submissions' = SelectSeq(submissions, LAMBDA s : s.id = deletes[i].id)
    /\ toast' = "Submission deleted"
    /\ UNCHANGED <<formVars, adminVariant, sessionFlag, isAuthenticated, password,
                   isLoading, loginError, verifies, fetches, stored>>

\* handleDelete after its await resolved
handleDeleteResolved(i) ==
    /\ i \in 1..Len(deletes)
    /\ deletes[i].status = "resolved"
    /\ deletes' = RemoveAt(deletes, i)
    /\ submissions' = FilterOut(submissions, deletes[i].id)
    /\ toast' = "Submission deleted"
    /\ UNCHANGED <<formVars, adminVariant, sessionFlag, isAuthenticated, password,
                   isLoading, loginError, verifies, fetches, stored>>

\* the catch block removing the row all the same
handleDeleteRejectedRemoves(i) ==
    /\ i \in 1..Len(deletes)
    /\ deletes[i].status = "rejected"
    /\ deletes' = RemoveAt(deletes, i)
    /\ submissions' = FilterOut(submissions, deletes[i].id)
    /\ toast' = "Failed to delete submission"
    /\ UNCHANGED <<formVars, adminVariant, sessionFlag, isAuthenticated, password,
                   isLoading, loginError, verifies, fetches, stored>>

\* handleDelete after its await rejected: the catch block
handleDeleteRejected(i) ==
    /\ i \in 1..Len(deletes)
    /\ deletes[i].status = "rejected"
    /\ deletes' = RemoveAt(deletes, i)
    /\ toast' = "Failed to delete submission"
    /\ UNCHANGED <<formVars, adminVariant, sessionFlag, isAuthenticated, password,
                   submissions, isLoading, loginError, verifies, fetches, stored>>

\* the onClick without sessionStorage.removeItem
logoutKeepsFlag ==
    /\ adminVariant = "session"
    /\ DashboardRendered
    /\ isAuthenticated' = FALSE
    /\ password' = ""
    /\ verifies' = MarkBeforeLogout(verifies)
    /\ UNCHANGED <<formVars, adminVariant, sessionFlag, submissions, isLoading,
                   loginError, fetches, deletes, stored, toast>>

\* onClick of the logout button, session variant
logout ==
    /\ adminVariant = "session"
    /\ DashboardRendered
    /\ isAuthenticated' = FALSE
    /\ password' = ""
    /\ sessionFlag' = Null
    /\ verifies' = MarkBeforeLogout(verifies)
    /\ UNCHANGED <<formVars, adminVariant, submissions, isLoading, loginError,
                   fetches, deletes, stored, toast>>

\* onClick of the logout button, memory variant
logoutMemory ==
    /\ adminVariant = "memory"
    /\ DashboardRendered
    /\ isAuthenticated' = FALSE
    /\ password' = ""
    /\ verifies' = MarkBeforeLogout(verifies)
    /\ UNCHANGED <<formVars, adminVariant, sessionFlag, submissions, isLoading,
                   loginError, fetches, deletes, stored, toast>>

\* the page is reloaded in the same browser session, session variant: the
\* pending promises die with the old page, useState runs again and the mount
\* effect fetches when the flag is there
reload ==
    /\ adminVariant = "session"
    /\ isAuthenticated' = (sessionFlag = "true")
    /\ password' = ""
    /\ submissions' = <<>>
    /\ loginError' = ""
    /\ verifies' = <<>>
    /\ deletes' = <<>>
    /\ IF sessionFlag = "true"
       THEN /\ isLoading' = TRUE
            /\ fetches' = <<NewFetch>>
       ELSE /\ isLoading' = FALSE
            /\ fetches' = <<>>
    /\ UNCHANGED <<formVars, adminVariant, sessionFlag, stored, toast>>

\* the same, memory variant: nothing survives and nothing is fetched
reloadMemory ==
    /\ adminVariant = "memory"
    /\ isAuthenticated' = FALSE
    /\ password' = ""
    /\ submissions' = <<>>
    /\ isLoading' = FALSE
    /\ loginError' = ""
    /\ verifies' = <<>>
    /\ fetches' = <<>>
    /\ deletes' = <<>>
    /\ UNCHANGED <<formVars, adminVariant, sessionFlag, stored, toast>>

----------------------------------------------------------------------------
(* The backend answering the dashboard's calls *)

\* A list or delete call settles when the backend answers it (or the
\* transport fails); the handler's continuation runs when that answer reaches
\* the page, so clicks can come in between.

\* the awaited axios.get settles: the rows stored at that moment, or an error
fetchSettles(i, status) ==
    /\ i \in 1..Len(fetches)
    /\ fetches[i].status = "pending"
    /\ fetches' = [fetches EXCEPT ![i] =
                     [@ EXCEPT !.status = status,
                               !.data = IF status = "resolved" THEN stored ELSE <<>>]]
    /\ UNCHANGED <<formVars, adminVariant, sessionFlag, isAuthenticated, password,
                   submissions, isLoading, loginError, verifies, deletes, stored,
                   toast>>

\* the awaited axios.delete settles: the row is gone from the store, or an error
deleteSettles(i, status) ==
    /\ i \in 1..Len(deletes)
    /\ deletes[i].status = "pending"
    /\ deletes' = [deletes EXCEPT ![i].status = status]
    /\ stored' = IF status = "resolved" THEN FilterOut(stored, deletes[i].id)
                 ELSE stored
    /\ UNCHANGED <<formVars, adminVariant, sessionFlag, isAuthenticated, password,
                   submissions, isLoading, loginError, verifies, fetches, toast>>

\* the ids the page or a call of it still refers to
KnownIds ==
    RowIds(submissions) \cup {deletes[k].id : k \in 1..Len(deletes)}
    \cup UNION {RowIds(fetches[k].data) : k \in 1..Len(fetches)}

\* a visitor's POST /api/submissions is stored while the dashboard is open
submissionStored ==
    /\ adminVariant # "none"
    /\ NewRow.id \notin RowIds(stored) \cup KnownIds
    /\ stored' = Append(stored, NewRow)
    /\ UNCHANGED <<formVars, adminVariant, sessionFlag, isAuthenticated, password,
                   submissions, isLoading, loginError, verifies, fetches, deletes,
                   toast>>

----------------------------------------------------------------------------
(* Specifications *)

NextForm ==
    \/ handleSubmit
    \/ handleSubmitPlain
    \/ \E f \in Fields(variant) : \E v \in Typed(f) : handleChange(f, v)
    \/ \E i \in 1..MaxInFlight : postSettles(i, "resolved", Undefined)
    \/ \E i \in 1..MaxInFlight : \E d \in PostDetails : postSettles(i, "rejected", d)
    \/ \E i \in 1..MaxInFlight : handleSubmitResolved(i)
    \/ \E i \in 1..MaxInFlight : handleSubmitRejected(i)
    \/ \E i \in 1..MaxInFlight : handleSubmitPlainResolved(i)
    \/ \E i \in 1..MaxInFlight : handleSubmitPlainRejected(i)
    \/ sendingTimeout
    \/ submitAnother
    \/ submitAnotherPlain

NextAdmin ==
    \/ \E p \in Passwords : setPassword(p)
    \/ handleLogin
    \/ \E i \in 1..MaxPending : handleLoginGranted(i)
    \/ \E i \in 1..MaxPending : handleLoginGrantedMemory(i)
    \/ \E i \in 1..MaxPending : handleLoginDenied(i)
    \/ \E i \in 1..MaxPending : handleLoginRejected(i)
    \/ \E i \in 1..MaxPending : \E s \in {"resolved", "rejected"} : fetchSettles(i, s)
    \/ \E i \in 1..MaxPending : fetchSubmissionsResolved(i)
    \/ \E i \in 1..MaxPending : fetchSubmissionsRejected(i)
    \/ \E id \in RowIds(InitialRows) \cup {NewRow.id} : \E c \in BOOLEAN :
          handleDelete(id, c)
    \/ \E i \in 1..MaxPending : \E s \in {"resolved", "rejected"} : deleteSettles(i, s)
    \/ \E i \in 1..MaxPending : handleDeleteResolved(i)
    \/ \E i \in 1..MaxPending : handleDeleteRejected(i)
    \/ logout
    \/ logoutMemory
    \/ reload
    \/ reloadMemory
    \/ submissionStored

\* the public form is the page opened
InitFormPage == InitForm /\ AdminUnmounted /\ toast = ""

SpecForm == InitFormPage /\ [][NextForm]_vars

\* the dashboard is the page opened
InitAdminPage == InitAdmin /\ FormUnmounted /\ toast = ""

SpecAdmin == InitAdminPage /\ [][NextAdmin]_vars

\* validate alone: every sampled combination of field values is submitted once
SampleForms(v) ==
    IF v = "animated"
    THEN [name : Samples("name"), business_name : Samples("business_name"),
          mobile_number : Samples("mobile_number"), email : Samples("email"),
          agreed_to_terms : BOOLEAN]
    ELSE [name : Samples("name"), business_name : Samples("business_name"),
          mobile_number : Samples("mobile_number"), agreed_to_terms : BOOLEAN]

InitValidate ==
    /\ variant \in {"animated", "plain"}
    /\ formData \in SampleForms(variant)
    /\ errors = EmptyObject
    /\ isSubmitting = FALSE
    /\ showSendingGif = FALSE
    /\ isSubmitted = FALSE
    /\ posts = <<>>
    /\ timers = 0
    /\ AdminUnmounted
    /\ toast = ""

NextValidate ==
    \/ handleSubmit
    \/ handleSubmitPlain

SpecValidate == InitValidate /\ [][NextValidate]_vars

\* the whole application: either page is opened
Init == InitFormPage \/ InitAdminPage

Next == NextForm \/ NextAdmin

Spec == Init /\ [][Next]_vars

----------------------------------------------------------------------------
(* Properties of the public form *)

\* what validate returns for the fields on screen
Validation ==
    IF variant = "plain" THEN validatePlain(formData) ELSE validate(formData)

\* handleSubmit ran and validate found something
InvalidSubmit == (handleSubmit \/ handleSubmitPlain) /\ KeyCount(Validation) > 0

\* handleSubmit ran and validate found nothing
ValidSubmit == (handleSubmit \/ handleSubmitPlain) /\ KeyCount(Validation) = 0

\* the view render returns
Phase ==
    IF showSendingGif THEN "sending"
    ELSE IF isSubmitted THEN "submitted"
    ELSE IF isSubmitting THEN "submitting"
    ELSE "editing"

\* C1: a submit for which validate returns at least one error issues no POST,
\* stores exactly validate's map in errors, and leaves the form in editing:
\* isSubmitting, showSendingGif and isSubmitted stay false, formData is unchanged.
C1_InvalidSubmitIssuesNoCall ==
    [][InvalidSubmit =>
          /\ posts' = posts
          /\ errors' = Validation
          /\ KeyCount(errors') > 0
          /\ ~isSubmitting /\ ~isSubmitting'
          /\ ~showSendingGif /\ ~showSendingGif'
          /\ ~isSubmitted /\ ~isSubmitted'
          /\ formData' = formData]_vars

\* an invalid submit of a half-filled form has happened: its errors are shown,
\* nothing is in flight
C1_Witness ==
    /\ \E f \in DOMAIN errors : Truthy(errors[f])
    /\ errors = Validation
    /\ formData.name # <<>>
    /\ posts = <<>>
    /\ ~isSubmitting

\* C2: a submit whose fields all pass validation issues exactly one POST, whose
\* payload is the field values held when submit was triggered; the payload of
\* a call in flight does not follow later edits, and no other step issues a POST.
C2_ValidSubmitPostsOnce ==
    [][/\ ValidSubmit =>
             /\ Len(posts') = Len(posts) + 1
             /\ SubSeq(posts', 1, Len(posts)) = posts
             /\ posts'[Len(posts')].payload = formData
             /\ posts'[Len(posts')].status = "pending"
       /\ Len(posts') > Len(posts) => ValidSubmit
       /\ Len(posts') = Len(posts) =>
             \A i \in 1..Len(posts) : posts'[i].payload = posts[i].payload]_vars

\* a call is in flight and the form has been edited since: the payload is no
\* longer what the fields hold
C2_Witness ==
    /\ Len(posts) = 1
    /\ posts[1].status = "pending"
    /\ posts[1].payload # formData
    /\ posts[1].payload.name = <<"A", "l">>
    /\ formData.name = <<"B", "o">>

\* what the rule of a field is meant to return for a labelled value
ExpectedError(field, value) ==
    CASE field = "name" ->
            IF value \in BlankText THEN "Name is required" ELSE Undefined
      [] field = "business_name" ->
            IF value \in BlankText THEN "Business name is required" ELSE Undefined
      [] field = "mobile_number" ->
            IF value \in MobileBlank THEN "Mobile number is required"
            ELSE IF value \in MobileBad THEN "Please enter a valid mobile number"
            ELSE Undefined
      [] field = "email" ->
            IF value \in BlankText THEN "Email is required"
            ELSE IF value \in EmailBad THEN "Please enter a valid email address"
            ELSE Undefined
      [] field = "agreed_to_terms" ->
            IF value THEN Undefined ELSE "You must agree to the terms"

ValidationOf(fd) ==
    IF variant = "plain" THEN validatePlain(fd) ELSE validate(fd)

\* C3: for every combination of field values (blank, pattern-failing or valid
\* text, terms ticked or not) validate returns the specified message for every
\* field whose rule fails and no entry for a field whose rule passes, and the
\* entry of one field does not depend on the value of any other field; a
\* submit that fails stores that map.
C3_ValidatePerField ==
    /\ DOMAIN Validation \subseteq Fields(variant)
    /\ \A f \in Fields(variant) :
          Get(Validation, f) = ExpectedError(f, formData[f])
    /\ \A f \in Fields(variant) : \A v \in Samples(f) :
          \A g \in Fields(variant) \ {f} :
             Get(ValidationOf([formData EXCEPT ![f] = v]), g) = Get(Validation, g)
    /\ KeyCount(errors) > 0 =>
          \A f \in Fields(variant) : Get(errors, f) = ExpectedError(f, formData[f])

\* a submit has stored one error per field, two of them from the patterns
C3_Witness ==
    /\ variant = "animated"
    /\ KeyCount(errors) = 5
    /\ errors.name = "Name is required"
    /\ errors.mobile_number = "Please enter a valid mobile number"
    /\ errors.email = "Please enter a valid email address"
    /\ formData.mobile_number = <<"1", "2", "3", "4", "5", "a", "7">>
    /\ formData.email = <<"a", "@", "b", ".">>

\* C4: at most one POST is in flight; while one is, isSubmitting is true and
\* the submit control is disabled, so no second submit can start.
C4_OnePostInFlight ==
    /\ Len(posts) <= 1
    /\ posts # <<>> =>
          /\ isSubmitting
          /\ ~SubmitEnabled
          /\ ~ENABLED (handleSubmit \/ handleSubmitPlain)

\* a POST is pending
C4_Witness ==
    /\ Len(posts) = 1
    /\ posts[1].status = "pending"
    /\ isSubmitting

\* the catch block of handleSubmit ran
SubmitFailureHandled ==
    \E i \in 1..Len(posts) : handleSubmitRejected(i) \/ handleSubmitPlainRejected(i)

\* the continuation of a resolved POST ran
SubmitSuccessHandled ==
    \E i \in 1..Len(posts) : handleSubmitResolved(i) \/ handleSubmitPlainResolved(i)

\* C5: when the POST fails the form returns to editing: isSubmitting becomes
\* false, isSubmitted and showSendingGif stay false, no timer is started, and
\* formData is what it was when the failure arrived; the submit control is
\* enabled again.
C5_FailureReturnsToEditing ==
    [][SubmitFailureHandled =>
          /\ isSubmitting /\ ~isSubmitting'
          /\ ~isSubmitted /\ ~isSubmitted'
          /\ ~showSendingGif /\ ~showSendingGif'
          /\ timers' = timers
          /\ formData' = formData
          /\ errors' = errors
          /\ Phase' = "editing"
          /\ SubmitEnabled']_vars

\* a failure has been handled: its message is shown and the form, edited
\* while the call was in flight, still holds valid values
C5_Witness ==
    /\ toast = "Database unavailable"
    /\ Phase = "editing"
    /\ posts = <<>>
    /\ timers = 0
    /\ formData.name = <<"B", "o">>
    /\ KeyCount(Validation) = 0

\* C6: the views follow the order editing, submitting, (sending), submitted.
\* The submitted view is entered only from a POST that succeeded: in the
\* animated variant the success enters the sending view (isSubmitting false,
\* showSendingGif true) and the timer callback always leaves it for the
\* submitted view; in the plain variant the success enters submitted directly.
\* Sending is never entered without a successful POST.
C6_ViewOrder ==
    [][/\ Phase' # Phase =>
             \/ Phase = "editing" /\ Phase' = "submitting" /\ ValidSubmit
             \/ Phase = "submitting" /\ Phase' = "editing" /\ SubmitFailureHandled
             \/ /\ Phase = "submitting" /\ Phase' = "sending"
                /\ variant = "animated" /\ SubmitSuccessHandled
             \/ /\ Phase = "sending" /\ Phase' = "submitted"
                /\ variant = "animated" /\ sendingTimeout
             \/ /\ Phase = "submitting" /\ Phase' = "submitted"
                /\ variant = "plain" /\ SubmitSuccessHandled
             \/ Phase = "submitted" /\ Phase' = "editing"
       /\ (variant = "animated" /\ SubmitSuccessHandled) =>
             /\ ~isSubmitting' /\ showSendingGif' /\ ~isSubmitted'
             /\ timers' = timers + 1
       /\ (variant = "plain" /\ SubmitSuccessHandled) =>
             ~isSubmitting' /\ ~showSendingGif' /\ isSubmitted'
       /\ sendingTimeout =>
             /\ Phase = "sending"
             /\ ~showSendingGif' /\ isSubmitted' /\ Phase' = "submitted"
       /\ (timers > 0) = (Phase = "sending")]_vars

\* the animated form has gone through sending and shows the success view
C6_Witness ==
    /\ variant = "animated"
    /\ Phase = "submitted"
    /\ timers = 0
    /\ posts = <<>>

\* C7: "submit another" after a successful submission returns to editing with
\* every field at its default, no error set for any field and isSubmitting
\* false, whatever failures, edits and submits came before.
C7_SubmitAnotherResets ==
    [][(submitAnother \/ submitAnotherPlain) =>
          /\ Phase = "submitted"
          /\ Phase' = "editing"
          /\ formData' = IF variant = "plain" THEN InitialFormDataPlain
                         ELSE InitialFormData
          /\ \A f \in Fields(variant) : Get(errors', f) = Undefined
          /\ ~isSubmitting']_vars

\* the plain form was submitted with success, and "submit another" has
\* brought back the empty form
C7_Witness ==
    /\ variant = "plain"
    /\ toast = "Form submitted successfully!"
    /\ Phase = "editing"
    /\ formData = InitialFormDataPlain
    /\ errors = EmptyObject
    /\ posts = <<>>

\* C8: handleChange(f, v) clears the error of f only: afterwards f has no
\* displayed error and formData[f] = v, and the error and the value of every
\* other field are unchanged.
C8_ChangeClearsOwnError ==
    [][\A f \in Fields(variant) : \A v \in Typed(f) :
          handleChange(f, v) =>
             /\ ~Truthy(Get(errors', f))
             /\ formData'[f] = v
             /\ \A g \in Fields(variant) \ {f} :
                   /\ Get(errors', g) = Get(errors, g)
                   /\ formData'[g] = formData[g]]_vars

\* after a failed submit one field was edited: its error is cleared, the
\* error of another field is still shown
C8_Witness ==
    /\ "name" \in DOMAIN errors
    /\ errors.name = Null
    /\ formData.name = <<"A", "l">>
    /\ Get(errors, "mobile_number") = "Mobile number is required"
    /\ Get(errors, "agreed_to_terms") = "You must agree to the terms"

----------------------------------------------------------------------------
(* Properties of the dashboard *)

LoginGranted ==
    \E i \in 1..Len(verifies) : handleLoginGranted(i) \/ handleLoginGrantedMemory(i)

LoginDenied == \E i \in 1..Len(verifies) : handleLoginDenied(i)

LoginRejected == \E i \in 1..Len(verifies) : handleLoginRejected(i)

\* C9: a login whose verify response has success true sets authenticated and
\* issues exactly one GET /api/submissions; a login whose verification does
\* not succeed (no success in the response, or an error) issues none, and
\* neither does sending the password.
C9_LoginFetchesOnce ==
    [][/\ LoginGranted =>
             /\ isAuthenticated'
             /\ Len(fetches') = Len(fetches) + 1
             /\ SubSeq(fetches', 1, Len(fetches)) = fetches
             /\ fetches'[Len(fetches')].status = "pending"
       /\ (LoginDenied \/ LoginRejected \/ handleLogin) =>
             /\ fetches' = fetches
             /\ isAuthenticated' = isAuthenticated]_vars

\* a login has just succeeded: authenticated, one list fetch pending
C9_Witness ==
    /\ isAuthenticated
    /\ verifies = <<>>
    /\ Len(fetches) = 1
    /\ fetches[1].status = "pending"
    /\ isLoading
    /\ submissions = <<>>

\* C10: a failed login of either kind (a verify response without success, or
\* an error) sets loginError to "Invalid password. Please try again.", leaves
\* authenticated false and leaves the password input unchanged.
C10_FailedLoginSetsError ==
    [][(LoginDenied \/ LoginRejected) =>
          /\ loginError' = "Invalid password. Please try again."
          /\ ~isAuthenticated => ~isAuthenticated'
          /\ password' = password]_vars

----------------------------------------------------------------------------
(* Dashboard session: reload and logout *)

\* the dashboard component is initialised again in the same browser session
Reloaded == reload \/ reloadMemory

\* the logout button is clicked
LoggedOut == logout \/ logoutMemory

\* C11: the authenticated state survives a reload within the same browser
\* session: after a successful login and no logout, the re-initialised
\* dashboard comes up logged in and issues a list fetch on mount.
C11_AuthSurvivesReload ==
    [][(Reloaded /\ isAuthenticated) =>
          /\ isAuthenticated'
          /\ isLoading'
          /\ fetches' = <<NewFetch>>]_vars

\* C12: logout sets authenticated to false, removes the persisted flag and
\* leaves the in-memory submissions list unchanged; a reload after logout
\* starts in the login view and issues no list fetch.
C12_LogoutClearsSession ==
    [][/\ LoggedOut =>
             /\ ~isAuthenticated'
             /\ sessionFlag' = Null
             /\ submissions' = submissions
       /\ (Reloaded /\ ~isAuthenticated) =>
             /\ LoginRendered'
             /\ ~isLoading'
             /\ fetches' = <<>>]_vars

\* logged out with the fetched rows still in memory and no flag left
C12_Witness ==
    /\ adminVariant = "session"
    /\ ~isAuthenticated
    /\ sessionFlag = Null
    /\ submissions # <<>>
    /\ Pending = 0

----------------------------------------------------------------------------
(* Dashboard: deleting a row *)

\* the positions of rows whose id is not id, and the n-th of them
KeptAt(rows, id) == {k \in 1..Len(rows) : rows[k].id # id}

NthKept(rows, id, n) ==
    CHOOSE k \in KeptAt(rows, id) :
        Cardinality({m \in KeptAt(rows, id) : m <= k}) = n

\* lists of up to MaxRows rows, ids repeated or not, for the filter alone
MaxRows == 3

RowLists == UNION {[1..n -> {Row(k) : k \in 1..MaxRows}] : n \in 0..MaxRows}

\* the filter of handleDelete keeps the rows at KeptAt, in their order
FilterKeepsOthers(rows, id) ==
    LET out == FilterOut(rows, id)
    IN  /\ Len(out) = Cardinality(KeptAt(rows, id))
        /\ \A n \in 1..Len(out) : out[n] = rows[NthKept(rows, id, n)]

\* the same for every sampled list and id
FilterOutExact ==
    \A rows \in RowLists : \A id \in 1..MaxRows : FilterKeepsOthers(rows, id)

\* the response of a DELETE call reaches the page
DeleteSucceeded(i) == i \in 1..Len(deletes) /\ handleDeleteResolved(i)

DeleteFailed(i) == i \in 1..Len(deletes) /\ handleDeleteRejected(i)

\* C13: a confirmed delete whose DELETE call succeeds removes from the
\* in-memory list exactly the rows with that id: every other row stays, in
\* the same relative order, the displayed total drops by the number of
\* removed rows, and no re-fetch is issued.
C13_DeleteRemovesExactlyTarget ==
    [][\A i \in 1..Len(deletes) :
          DeleteSucceeded(i) =>
             LET id == deletes[i].id
                 kept == KeptAt(submissions, id)
             IN  /\ Len(submissions') = Cardinality(kept)
                 /\ Len(submissions') =
                       Len(submissions) - Cardinality((1..Len(submissions)) \ kept)
                 /\ \A n \in 1..Cardinality(kept) :
                       submissions'[n] = submissions[NthKept(submissions, id, n)]
                 /\ FilterOutExact
                 /\ fetches' = fetches
                 /\ isLoading' = isLoading]_vars

\* one of two listed rows has just been deleted: the other is what is left
C13_Witness ==
    /\ toast = "Submission deleted"
    /\ Pending = 0
    /\ TableRendered
    /\ Len(submissions) = 1
    /\ submissions = stored
    /\ stored # InitialRows

\* C14: declining the delete confirmation issues no DELETE call and leaves
\* the whole admin state unchanged; a DELETE call is only ever issued after a
\* confirmation was accepted.
C14_DeclineChangesNothing ==
    [][/\ \A id \in RowIds(submissions) :
             handleDelete(id, FALSE) => UNCHANGED <<adminVars, toast>>
       /\ Len(deletes') > Len(deletes) =>
             \E id \in RowIds(submissions) :
                /\ handleDelete(id, TRUE)
                /\ deletes' = Append(deletes, [id |-> id, status |-> "pending"])]_vars

\* a DELETE call was issued from a table of two rows, the list is as it was
C14_Witness ==
    /\ TableRendered
    /\ Len(submissions) = 2
    /\ Len(deletes) = 1
    /\ deletes[1].status = "pending"
    /\ Pending = 1

\* C15: when a DELETE call fails, the in-memory list is left exactly as it was
\* when the failure arrived (the targeted row is still present) and the
\* session stays authenticated.
C15_DeleteFailureKeepsList ==
    [][\A i \in 1..Len(deletes) :
          DeleteFailed(i) =>
             /\ submissions' = submissions
             /\ deletes[i].id \in RowIds(submissions) =>
                   deletes[i].id \in RowIds(submissions')
             /\ isAuthenticated => isAuthenticated']_vars

\* a delete has just failed: the row is still listed and still stored
C15_Witness ==
    /\ toast = "Failed to delete submission"
    /\ Pending = 0
    /\ TableRendered
    /\ submissions = stored

----------------------------------------------------------------------------
(* Dashboard: fetching the list *)

\* the response of a GET call reaches the page
FetchSucceeded(i) == i \in 1..Len(fetches) /\ fetchSubmissionsResolved(i)

FetchFailed(i) == i \in 1..Len(fetches) /\ fetchSubmissionsRejected(i)

\* C16: when a GET /api/submissions call fails, the in-memory list keeps its
\* prior contents unchanged, isLoading is reset to false, and the session
\* stays authenticated.
C16_FetchFailureKeepsList ==
    [][\A i \in 1..Len(fetches) :
          FetchFailed(i) =>
             /\ submissions' = submissions
             /\ ~isLoading'
             /\ isAuthenticated => isAuthenticated']_vars

\* a fetch has just failed over a list fetched before: the rows are still there
C16_Witness ==
    /\ toast = "Failed to load submissions"
    /\ Pending = 0
    /\ isAuthenticated
    /\ ~isLoading
    /\ submissions # <<>>

\* C17: the loading flag is set for the duration of every list fetch: in every
\* reachable state in which a GET call is in flight isLoading is true, also
\* when fetches overlap.
C17_LoadingWhileFetching == fetches # <<>> => isLoading

\* C18 as amended: a successful list fetch replaces the in-memory list
\* wholesale: right after its response is applied the list equals exactly the
\* returned sequence, whatever the previous contents and the local deletions
\* applied meanwhile; when fetches overlap, the list ends equal to the
\* response applied last, whichever fetch it belongs to.
C18_FetchReplacesList ==
    [][\A i \in 1..Len(fetches) :
          FetchSucceeded(i) => submissions' = fetches[i].data]_vars

\* the response of the later of two overlapping fetches has just been applied
\* and is the list, the earlier fetch is still in flight
C18_Witness ==
    /\ DashboardRendered
    /\ ~isLoading
    /\ Len(fetches) = 1
    /\ fetches[1].latest = <<submissions>>
    /\ submissions # <<>>

\* C18 as written: the same, but when fetches overlap the list ends equal to
\* the response of the fetch issued last.
C18_LastIssuedWins ==
    [][\A i \in 1..Len(fetches) :
          FetchSucceeded(i) =>
             /\ submissions' = fetches[i].data
             /\ (fetches[i].latest # <<>> /\ fetches' = <<>>) =>
                   submissions' = fetches[i].latest[1]]_vars

\* C19: a delete is safe when it races with a list fetch: once the fetch and
\* the confirmed successful delete of a row have both completed, the
\* in-memory list does not contain that row, so with no call left in flight
\* every listed row is a row the backend still holds.
C19_DeleteSafeWithFetch ==
    (fetches = <<>> /\ deletes = <<>>) => RowIds(submissions) \subseteq RowIds(stored)

\* C20: after a logout the session stays logged out until a verify request
\* issued after that logout succeeds: a verify response still in flight from
\* before the logout never re-authenticates the session or re-creates the
\* persisted flag.
C20_StaleVerifyIgnored ==
    [][\A i \in 1..Len(verifies) :
          (/\ verifies[i].beforeLogout
           /\ handleLoginGranted(i) \/ handleLoginGrantedMemory(i)) =>
             /\ isAuthenticated' = isAuthenticated
             /\ sessionFlag' = sessionFlag]_vars

----------------------------------------------------------------------------
(* The form's phases *)

\* the fields whose error text is displayed
DisplayedErrors == {f \in DOMAIN errors : Truthy(errors[f])}

\* how many of the three flags are set
FlagsSet ==
    Cardinality({f \in {"isSubmitting", "showSendingGif", "isSubmitted"} :
                    \/ f = "isSubmitting" /\ isSubmitting
                    \/ f = "showSendingGif" /\ showSendingGif
                    \/ f = "isSubmitted" /\ isSubmitted})

\* C24: in every reachable state of the intake form at most one of
\* isSubmitting, showSendingGif and isSubmitted is true, and no field has a
\* displayed error whenever any of the three is true, so the form is in
\* exactly one of editing, submitting, sending, submitted.
C24_OnePhaseAtATime ==
    variant # "none" =>
       /\ FlagsSet <= 1
       /\ FlagsSet = 1 => DisplayedErrors = {}

\* the sending view is up: its flag alone is set and no error is displayed
C24_Witness ==
    /\ variant = "animated"
    /\ showSendingGif
    /\ FlagsSet = 1
    /\ DisplayedErrors = {}
    /\ timers = 1

----------------------------------------------------------------------------
(* Dashboard session: the in-memory flag and the stored flag *)

\* C22: in the session-persisting dashboard, in every reachable state
\* authenticated is true exactly when the session-storage key
\* adminAuthenticated holds "true": initialisation, successful login and
\* logout each keep the in-memory flag and the stored flag equal.
C22_FlagMatchesStorage ==
    adminVariant = "session" => (isAuthenticated <=> sessionFlag = "true")

\* the dashboard came up logged in from the stored flag
C22_Witness ==
    /\ adminVariant = "session"
    /\ isAuthenticated
    /\ sessionFlag = "true"
    /\ verifies = <<>>
    /\ submissions = <<>>
    /\ password = ""

----------------------------------------------------------------------------
(* Failed calls, on either page *)

\* the continuation of a failed call ran
FetchFailureHandled == \E i \in 1..Len(fetches) : FetchFailed(i)

DeleteFailureHandled == \E i \in 1..Len(deletes) : DeleteFailed(i)

AnyFailureHandled ==
    \/ LoginDenied
    \/ LoginRejected
    \/ FetchFailureHandled
    \/ DeleteFailureHandled
    \/ SubmitFailureHandled

\* C21: errors never change the authentication state and never leave a busy
\* flag stuck: after any failed verify, fetch, delete or submit response,
\* authenticated has the value it had before the response, isLoading is false
\* again after a failed fetch and isSubmitting after a failed submit, so the
\* same action can be retried.
C21_FailuresKeepState ==
    [][/\ AnyFailureHandled => isAuthenticated' = isAuthenticated
       /\ FetchFailureHandled => ~isLoading'
       /\ SubmitFailureHandled =>
             /\ ~isSubmitting'
             /\ FormRendered'
             /\ SubmitEnabled'
       /\ (LoginRejected /\ LoginRendered) =>
             /\ LoginRendered'
             /\ password' = password]_vars

\* a verify call with the right password ended in an error: still the login
\* view, the password still typed
C21_Witness ==
    /\ LoginRendered
    /\ loginError = "Invalid password. Please try again."
    /\ password = AdminPassword
    /\ Pending = 0
    /\ sessionFlag = Null
    /\ submissions = <<>>

----------------------------------------------------------------------------
(* Dashboard: calls and list updates outside a session *)

\* a GET /api/submissions call is issued by the step: by a granted login, or
\* by the mount effect of a reloaded dashboard
IssuesGet ==
    \/ ~Reloaded /\ Len(fetches') > Len(fetches)
    \/ Reloaded /\ fetches' # <<>>

\* a DELETE call is issued by the step
IssuesDelete == Len(deletes') > Len(deletes)

\* C23: privileged calls and list updates happen only inside an authenticated
\* session: every GET /api/submissions and DELETE call is issued in a state
\* where authenticated is true, and the in-memory submissions list never
\* changes while the session is logged out (a fetch or delete response
\* arriving after logout does not modify it).
C23_OnlyWhileAuthenticated ==
    [][/\ IssuesGet => isAuthenticated'
       /\ IssuesDelete => isAuthenticated /\ isAuthenticated'
       /\ (~isAuthenticated /\ ~Reloaded) => submissions' = submissions]_vars

=============================================================================
